---- MODULE Spec2Model ----
(***************************************************************************)
(* Model of mistral-ocr-parser: the image-description composer             *)
(* (mistral_ocr/image.py), the response-to-Markdown normalizer             *)
(* (mistral_ocr/parser.py) and the batch driver (mistral_ocr/utils.py).    *)
(*                                                                         *)
(* Every function of the program is synchronous, so a behaviour is one     *)
(* call: Init draws the call and its environment (the replies the remote   *)
(* client will give, the files on disk), and one action per function runs  *)
(* the whole call and records its outcome, the remote calls it made and    *)
(* the files it wrote.                                                     *)
(***************************************************************************)
EXTENDS Integers, Sequences, FiniteSets, TLC

VARIABLES
    pc,         \* "ready" before the call, "returned" / "raised" after it
    call,       \* the call: [fn |-> function name, ... its arguments and environment]
    result,     \* the value returned, or the exception raised
    calls,      \* remote calls made by the call, in order
    described,  \* payloads the normalizer handed to generate_image_description, in order
    fs          \* output directory: [dir |-> exists?, files |-> path -> content,
                \*                    writes |-> the <<path, content>> written by the run, in order]

vars == <<pc, call, result, calls, described, fs>>

---------------------------------------------------------------------------
(* Bounds *)

MaxDim == 2         \* decoded images are 1..MaxDim pixels wide and high
MaxBlocks == 2      \* blocks in an OCR response
MaxFiles == 3       \* files matched by the batch glob

---------------------------------------------------------------------------
(* Python values.  A value is a record tagged by its type; a dict is the   *)
(* sequence of its <<key, value>> items in insertion order.                *)

PyNone == [t |-> "none"]
PyStr(s) == [t |-> "str", s |-> s]
PyList(l) == [t |-> "list", l |-> l]
PyDict(items) == [t |-> "dict", items |-> items]
\* a str whose text is the JSON serialisation of value v
JsonText(v) == [t |-> "json", v |-> v]

Keys(d) == {d.items[i][1] : i \in 1..Len(d.items)}
Has(d, k) == k \in Keys(d)
Get(d, k) == LET i == CHOOSE j \in 1..Len(d.items) : d.items[j][1] = k IN d.items[i][2]
\* d[k] = v : replaces the value in place, or appends a new item
Set(d, k, v) ==
    IF Has(d, k)
    THEN PyDict([i \in 1..Len(d.items) |->
                    IF d.items[i][1] = k THEN <<k, v>> ELSE d.items[i]])
    ELSE PyDict(Append(d.items, <<k, v>>))

\* sub in s, for Python strings
Contains(s, sub) ==
    \E i \in 1..Len(s) : i + Len(sub) - 1 <= Len(s) /\ SubSeq(s, i, i + Len(sub) - 1) = sub

\* bool(v)
Truthy(v) ==
    CASE v.t = "none" -> FALSE
      [] v.t = "str"  -> v.s # ""
      [] v.t = "list" -> v.l # <<>>
      [] v.t = "dict" -> v.items # <<>>
      [] OTHER        -> TRUE

\* str(v) as used by an f-string, for the values that reach one in this model
Format(v) ==
    CASE v.t = "str"  -> v.s
      [] v.t = "none" -> "None"

(* Outcomes of evaluating an expression: a value or a raised exception. *)
Ok(v) == [ok |-> TRUE, v |-> v]
Raise(e) == [ok |-> FALSE, exc |-> e]

\* the exception classes of the model and their base classes
Bases(e) ==
    CASE e = "JSONDecodeError"   -> {"JSONDecodeError", "ValueError", "Exception"}
      [] e = "ValueError"        -> {"ValueError", "Exception"}
      [] e = "FileNotFoundError" -> {"FileNotFoundError", "OSError", "Exception"}
      [] OTHER                   -> {e, "Exception"}

\* except (classes): does the clause catch exception e
Catches(classes, e) == Bases(e) \cap classes # {}


---------------------------------------------------------------------------
(* mistral_ocr/image.py : generate_image_description                       *)

\* An image payload (the image_base64 argument): whether base64.b64decode
\* and Image.open accept it, and the pixel size they give.
Payload(decodes, w, h) == [empty |-> FALSE, decodes |-> decodes, width |-> w, height |-> h]
\* the empty string: b64decode gives no bytes, Image.open rejects them
EmptyPayload == [empty |-> TRUE, decodes |-> FALSE, width |-> 0, height |-> 0]

\* lines 87-88: image = Image.open(io.BytesIO(base64.b64decode(image_base64)))
ImageOpen(image_base64) ==
    IF image_base64.decodes
    THEN Ok([width |-> image_base64.width, height |-> image_base64.height])
    ELSE Raise("UnidentifiedImageError")

\* f"{image.width}x{image.height}"
Dimensions(image) == ToString(image.width) \o "x" \o ToString(image.height)

\* a reply of the chat endpoint: its choices attribute ("absent", "none",
\* "empty" or a "list") and the content of the first choice's message
Reply(choices, content) == [choices |-> choices, content |-> content]

\* the client as one description call sees it: whether client.chat exposes
\* `complete`, what the remote call raises ("None": nothing), what it returns
Client(hasComplete, raises, reply) ==
    [hasComplete |-> hasComplete, raises |-> raises, reply |-> reply]

\* a composer that calls chat.complete whatever the client exposes
ChatEndpoint_completeOnly(client) == "chat.complete"

\* lines 98-118: the one remote call; the client either exposes
\* chat.complete or is itself callable as chat(...)
ChatEndpoint(client) == IF client.hasComplete THEN "chat.complete" ELSE "chat"

ChatCall(client, image_base64) ==
    [endpoint |-> ChatEndpoint(client),
     model |-> "mistral-large-latest",
     json_format |-> client.hasComplete,
     image |-> IF client.hasComplete THEN image_base64 ELSE EmptyPayload]

ChatResponse(client) ==
    IF client.raises # "None" THEN Raise(client.raises) ELSE Ok(client.reply)

\* response.choices[0].message.content
ReplyContent(reply) ==
    CASE reply.choices = "absent" -> Raise("AttributeError")
      [] reply.choices = "none"   -> Raise("TypeError")
      [] reply.choices = "empty"  -> Raise("IndexError")
      [] OTHER                    -> Ok(reply.content)

\* json.loads(content)
JsonLoads(content) ==
    CASE content.t = "json" -> Ok(content.v)
      [] content.t = "str"  -> Raise("JSONDecodeError")
      [] OTHER              -> Raise("TypeError")

ParseExcepts == {"JSONDecodeError", "AttributeError", "TypeError"}

\* lines 121-130: parse the reply, accepting a content that is already a dict
ParseReply(reply) ==
    LET content == ReplyContent(reply)
        loaded == IF content.ok THEN JsonLoads(content.v) ELSE content
    IN  IF loaded.ok THEN loaded
        ELSE IF ~Catches(ParseExcepts, loaded.exc) THEN loaded
        ELSE \* the handler evaluates response.choices[0].message.content again
             IF ~content.ok THEN content
             ELSE IF content.v.t = "dict" THEN content
             ELSE Raise("ValueError")

\* "dimensions" not in result["metadata"]
LacksDimensions(metadata) ==
    CASE metadata.t = "dict" -> Ok(~Has(metadata, "dimensions"))
      [] metadata.t = "str"  -> Ok(~Contains(metadata.s, "dimensions"))
      [] metadata.t = "list" -> Ok(\A i \in 1..Len(metadata.l) : metadata.l[i] # PyStr("dimensions"))
      [] OTHER               -> Raise("TypeError")

\* a completion that overwrites the dimensions the reply supplied
AddDimensions_overwrite(parsed, image) ==
    IF parsed.t # "dict" THEN Raise("ValueError")
    ELSE LET withMeta == IF Has(parsed, "metadata") THEN parsed
                         ELSE Set(parsed, "metadata", PyDict(<<>>))
             metadata == Get(withMeta, "metadata")
         IN  IF metadata.t # "dict" THEN Raise("TypeError")
             ELSE Ok(Set(withMeta, "metadata",
                         Set(metadata, "dimensions", PyStr(Dimensions(image)))))

\* lines 133-143: complete the parsed result with the image dimensions
AddDimensions(parsed, image) ==
    IF parsed.t # "dict" THEN Raise("ValueError")
    ELSE LET withMeta == IF Has(parsed, "metadata") THEN parsed
                         ELSE Set(parsed, "metadata", PyDict(<<>>))
             metadata == Get(withMeta, "metadata")
             lacks == LacksDimensions(metadata)
         IN  IF ~lacks.ok THEN lacks
             ELSE IF ~lacks.v THEN Ok(withMeta)
             ELSE IF metadata.t # "dict" THEN Raise("TypeError")
             ELSE Ok(Set(withMeta, "metadata",
                         Set(metadata, "dimensions", PyStr(Dimensions(image)))))

\* lines 152-158
FallbackWithDimensions(image) ==
    PyDict(<< <<"description", PyStr("An image from the document")>>,
              <<"metadata", PyDict(<< <<"type", PyStr("Unknown")>>,
                                      <<"dimensions", PyStr(Dimensions(image))>> >>)>> >>)

\* lines 167-172
FallbackNoDimensions ==
    PyDict(<< <<"description", PyStr("An image from the document")>>,
              <<"metadata", PyDict(<< <<"type", PyStr("Unknown")>> >>)>> >>)

\* an inner handler that lets the "Invalid response format" ValueError through
InnerExcepts_noValueError == {"JSONDecodeError", "AttributeError", "KeyError", "IndexError"}

\* line 145
InnerExcepts == {"JSONDecodeError", "ValueError", "AttributeError", "KeyError", "IndexError"}

\* a handler that catches only what the inner handler catches
OuterExcepts_narrow == InnerExcepts

\* line 160
OuterExcepts == {"Exception"}

\* lines 145-158: the handler of the inner try statement, for the outcome of its body
InnerHandler(body, image) ==
    IF body.ok THEN body
    ELSE IF Catches(InnerExcepts, body.exc) THEN Ok(FallbackWithDimensions(image))
    ELSE body

\* lines 120-143: parse a reply that arrived and complete it
ParseAndComplete(parsed, image) ==
    IF parsed.ok THEN AddDimensions(parsed.v, image) ELSE parsed

\* lines 98-143: the body of the inner try statement, given the outcome of the remote call
InnerBody(response, image) ==
    IF response.ok THEN ParseAndComplete(ParseReply(response.v), image) ELSE response

\* lines 97-158: the inner try statement
DescribeDecoded(image, client) == InnerHandler(InnerBody(ChatResponse(client), image), image)

\* lines 160-172: the handler of the outer try statement, for the outcome of its body
OuterHandler(body) ==
    IF body.ok THEN body
    ELSE IF Catches(OuterExcepts, body.exc) THEN Ok(FallbackNoDimensions)
    ELSE body

\* lines 86-158: the body of the outer try statement, given the outcome of the decode
OuterBody(image, client) ==
    IF image.ok THEN DescribeDecoded(image.v, client) ELSE image

\* a composer that attempts the remote call again when it raised
generate_image_description_retry(image_base64, client) ==
    [out   |-> OuterHandler(OuterBody(ImageOpen(image_base64), client)),
     calls |-> IF ~image_base64.decodes THEN <<>>
               ELSE IF client.raises # "None"
               THEN <<ChatCall(client, image_base64), ChatCall(client, image_base64)>>
               ELSE <<ChatCall(client, image_base64)>>]

\* lines 85-172: the whole function; .out is its outcome, .calls the remote calls made
generate_image_description(image_base64, client) ==
    [out   |-> OuterHandler(OuterBody(ImageOpen(image_base64), client)),
     calls |-> IF image_base64.decodes THEN <<ChatCall(client, image_base64)>> ELSE <<>>]

---------------------------------------------------------------------------
(* mistral_ocr/image.py : structured_ocr                                   *)

\* the file at image_path: its name, whether it is a regular file, whether
\* its bytes can be read
ImageFile(name, is_file, readable) ==
    [name |-> name, is_file |-> is_file, readable |-> readable]

\* line 230: assert image_path.is_file(); an interpreter run with -O drops
\* assert statements
AssertIsFile(image, optimized) ==
    IF image.is_file \/ optimized THEN Ok(image) ELSE Raise("AssertionError")

\* line 233: image_path.read_bytes(); the bytes are named after their file
ReadBytes(image) ==
    IF ~image.is_file THEN Raise("FileNotFoundError")
    ELSE IF ~image.readable THEN Raise("PermissionError")
    ELSE Ok("bytes:" \o image.name)

\* line 234: f"data:image/jpeg;base64,{encoded_image}"
DataUrl(bytes) == "data:image/jpeg;base64," \o bytes

\* the client as one structured_ocr call sees it: what client.ocr.process
\* raises or returns (pages: "absent", "none" or a "list" of page markdowns)
\* and what client.chat.parse raises or returns (choices as in Reply, and
\* the parsed attribute of the first choice's message)
StructuredClient(ocr, parse) == [ocr |-> ocr, parse |-> parse]

\* lines 238-240: the OCR call
ImageOcrCall(base64_data_url, ocr_model) ==
    [endpoint |-> "ocr.process", image_url |-> base64_data_url, model |-> ocr_model]

\* lines 243-245: the markdown of the first page, "" without pages
ImageOcrMarkdown(image_response) ==
    IF image_response.pages = "absent" THEN Ok("")
    ELSE IF image_response.pages = "none" THEN Raise("TypeError")
    ELSE IF Len(image_response.markdowns) > 0 THEN Ok(image_response.markdowns[1])
    ELSE Ok("")

\* lines 248-267: the parse call; its model is the literal of line 249
ChatParseCall(base64_data_url, image_ocr_markdown) ==
    [endpoint |-> "chat.parse", model |-> "pixtral-12b-latest",
     image_url |-> base64_data_url,
     text |-> "<BEGIN_IMAGE_OCR>\n" \o image_ocr_markdown \o "\n<END_IMAGE_OCR>",
     response_format |-> "StructuredOCR", temperature |-> 0]

\* line 269: chat_response.choices[0].message.parsed
FirstParsed(chat_response) ==
    CASE chat_response.choices = "absent" -> Raise("AttributeError")
      [] chat_response.choices = "none"   -> Raise("TypeError")
      [] chat_response.choices = "empty"  -> Raise("IndexError")
      [] chat_response.choices = "list"   -> Ok(chat_response.parsed)

\* lines 274-279
DefaultStructured(image) ==
    PyDict(<< <<"file_name", PyStr(image.name)>>,
              <<"topics", PyList(<<PyStr("document")>>)>>,
              <<"languages", PyList(<<PyStr("English")>>)>>,
              <<"ocr_contents", PyDict(<< <<"text", PyStr("OCR processing failed")>> >>)>> >>)

\* line 271
StructuredExcepts == {"Exception"}

\* lines 271-279: what the handler makes of the outcome of the try block
StructuredHandler(image, outcome) ==
    IF outcome.ok \/ ~Catches(StructuredExcepts, outcome.exc)
    THEN outcome
    ELSE Ok(DefaultStructured(image))

\* lines 248-269: the parse call and the value read from its reply
ParseStep(client, url, markdown) ==
    [out   |-> IF client.parse.raises # "None" THEN Raise(client.parse.raises)
               ELSE FirstParsed(client.parse),
     calls |-> <<ChatParseCall(url, markdown)>>]

\* lines 243-269: after the OCR call returned
AfterOcr(client, url, markdown) ==
    IF ~markdown.ok THEN [out |-> markdown, calls |-> <<>>]
    ELSE ParseStep(client, url, markdown.v)

\* lines 236-269: the try block
StructuredBody(client, url, ocr_model) ==
    IF client.ocr.raises # "None"
    THEN [out |-> Raise(client.ocr.raises), calls |-> <<ImageOcrCall(url, ocr_model)>>]
    ELSE LET rest == AfterOcr(client, url, ImageOcrMarkdown(client.ocr))
         IN  [out |-> rest.out, calls |-> <<ImageOcrCall(url, ocr_model)>> \o rest.calls]

\* lines 236-279: the try statement
StructuredTry(image, body) ==
    [out |-> StructuredHandler(image, body.out), calls |-> body.calls]

\* lines 233-279: from the read on
ReadAndExtract(image, bytes, client, ocr_model) ==
    IF ~bytes.ok THEN [out |-> bytes, calls |-> <<>>]
    ELSE StructuredTry(image, StructuredBody(client, DataUrl(bytes.v), ocr_model))

\* lines 208-279: the whole function.  parse_model is accepted and not used.
structured_ocr(image, client, ocr_model, parse_model, optimized) ==
    IF ~AssertIsFile(image, optimized).ok
    THEN [out |-> AssertIsFile(image, optimized), calls |-> <<>>]
    ELSE ReadAndExtract(image, ReadBytes(image), client, ocr_model)

---------------------------------------------------------------------------
(* mistral_ocr/parser.py : MistralOCRParser._generate_markdown             *)

\* a base64 string held in a block: the payload it encodes ("" is EmptyPayload)
PyB64(payload) == [t |-> "b64", p |-> payload]

\* d.get(k, default)
GetOr(d, k, default) == IF Has(d, k) THEN Get(d, k) ELSE default

\* the client seen by the n-th description call of a run
ClientAt(client, n) == Client(client.hasComplete, client.replies[n].raises, client.replies[n].reply)

\* lines 196-197: the "- key: value" lines of the first n items of a metadata dict
RECURSIVE MetadataLines(_, _)
MetadataLines(metadata, n) ==
    IF n = 0 THEN ""
    ELSE MetadataLines(metadata, n - 1)
         \o "- " \o metadata.items[n][1] \o ": " \o Format(metadata.items[n][2]) \o "\n"

\* lines 194-198: the metadata list; a metadata that is not a dict has no items()
RenderMetadata(metadata) ==
    IF ~Truthy(metadata) THEN Ok("")
    ELSE IF metadata.t # "dict" THEN Raise("AttributeError")
    ELSE Ok("**Image Metadata:**\n" \o MetadataLines(metadata, Len(metadata.items)) \o "\n")

\* lines 186-198: the two image lines followed by the rendered metadata
ImageLines(image_data, description, metadata) ==
    IF ~metadata.ok THEN metadata
    ELSE Ok("![Image](" \o Format(GetOr(image_data, "url", PyStr("image_placeholder.png")))
            \o ")\n"
            \o "*Image Description: " \o Format(Get(description, "description")) \o "*\n\n"
            \o metadata.v)

\* lines 186-198: the fragment of an image block, given its description
RenderImage(image_data, description) ==
    IF ~Has(description, "description") THEN Raise("KeyError")
    ELSE ImageLines(image_data, description,
                    RenderMetadata(GetOr(description, "metadata", PyNone)))

\* lines 176-177: the payload of an image block ("" when absent)
BlockPayload(block) ==
    GetOr(GetOr(block, "image", PyDict(<<>>)), "base64", PyB64(EmptyPayload)).p

\* line 179: the image block is described and rendered
Describable(block) ==
    /\ GetOr(block, "type", PyNone) = PyStr("image")
    /\ ~BlockPayload(block).empty

\* lines 181-198: the image block whose description call gave d
RenderDescribed(image_data, d) ==
    [out |-> IF d.out.ok THEN RenderImage(image_data, d.out.v) ELSE d.out,
     calls |-> d.calls,
     described |-> <<GetOr(image_data, "base64", PyB64(EmptyPayload)).p>>]

\* an iteration that renders a placeholder for a block it does not know
RenderBlock_placeholder(block, client) ==
    IF GetOr(block, "type", PyNone) = PyStr("text")
    THEN [out |-> Ok(Format(GetOr(block, "text", PyStr(""))) \o "\n\n"), calls |-> <<>>, described |-> <<>>]
    ELSE IF Describable(block)
    THEN RenderDescribed(GetOr(block, "image", PyDict(<<>>)),
                         generate_image_description(BlockPayload(block), client))
    ELSE IF GetOr(block, "type", PyNone) = PyStr("image")
    THEN [out |-> Ok("![Image](image_placeholder.png)\n"), calls |-> <<>>, described |-> <<>>]
    ELSE [out |-> Ok(""), calls |-> <<>>, described |-> <<>>]

\* lines 167-198: one iteration of the loop; client is the one this block's
\* description call would see
RenderBlock(block, client) ==
    IF GetOr(block, "type", PyNone) = PyStr("text")
    THEN [out |-> Ok(Format(GetOr(block, "text", PyStr(""))) \o "\n\n"), calls |-> <<>>, described |-> <<>>]
    ELSE IF Describable(block)
    THEN RenderDescribed(GetOr(block, "image", PyDict(<<>>)),
                         generate_image_description(BlockPayload(block), client))
    ELSE [out |-> Ok(""), calls |-> <<>>, described |-> <<>>]

\* number of description calls the first n blocks ask for
RECURSIVE DescribedBefore(_, _)
DescribedBefore(blocks, n) ==
    IF n = 0 THEN 0
    ELSE DescribedBefore(blocks, n - 1) + (IF Describable(blocks[n]) THEN 1 ELSE 0)

\* the client the n-th block's iteration sees
BlockClient(blocks, client, n) ==
    IF Describable(blocks[n]) THEN ClientAt(client, DescribedBefore(blocks, n))
    ELSE Client(client.hasComplete, "None", Reply("empty", PyNone))

\* lines 171-198: markdown_parts after one more iteration
AppendFragment(before, this) ==
    [out   |-> IF this.out.ok THEN Ok(before.out.v \o this.out.v) ELSE this.out,
     calls |-> before.calls \o this.calls,
     described |-> before.described \o this.described]

\* lines 166-198: the n-th iteration, after the ones before it; an exception ends the loop
NextBlock(before, blocks, client, n) ==
    IF ~before.out.ok THEN before
    ELSE AppendFragment(before, RenderBlock(blocks[n], BlockClient(blocks, client, n)))

\* lines 164-200: the loop over the first n blocks and the final join
RECURSIVE RenderBlocks(_, _, _)
RenderBlocks(blocks, client, n) ==
    IF n = 0 THEN [out |-> Ok(""), calls |-> <<>>, described |-> <<>>]
    ELSE NextBlock(RenderBlocks(blocks, client, n - 1), blocks, client, n)

\* len(ocr_response.pages) > 0, when the response has the attribute
HasPages(ocr_response) == ocr_response.hasPages /\ Len(ocr_response.pages) > 0

\* line 161: response_dict.get("blocks", [])
BlocksOf(ocr_response) == GetOr(ocr_response.dict, "blocks", PyList(<<>>)).l

\* a normalizer that renders the block list whenever the response has one
generate_markdown_blocksOverFlat(ocr_response, client) ==
    IF HasPages(ocr_response)
    THEN [out |-> Ok(ocr_response.pages[1]), calls |-> <<>>, described |-> <<>>]
    ELSE IF Has(ocr_response.dict, "blocks")
    THEN RenderBlocks(BlocksOf(ocr_response), client, Len(BlocksOf(ocr_response)))
    ELSE IF Has(ocr_response.dict, "markdown")
    THEN [out |-> Ok(Get(ocr_response.dict, "markdown").s), calls |-> <<>>, described |-> <<>>]
    ELSE [out |-> Ok(""), calls |-> <<>>, described |-> <<>>]

\* a normalizer that prefers the flat markdown key and the last page
generate_markdown_flatFirst(ocr_response, client) ==
    IF Has(ocr_response.dict, "markdown")
    THEN [out |-> Ok(Get(ocr_response.dict, "markdown").s), calls |-> <<>>, described |-> <<>>]
    ELSE IF HasPages(ocr_response)
    THEN [out |-> Ok(ocr_response.pages[Len(ocr_response.pages)]), calls |-> <<>>, described |-> <<>>]
    ELSE RenderBlocks(BlocksOf(ocr_response), client, Len(BlocksOf(ocr_response)))

\* lines 149-200: the whole method.  ocr_response.dict is json.loads(ocr_response.json())
generate_markdown(ocr_response, client) ==
    IF HasPages(ocr_response)
    THEN [out |-> Ok(ocr_response.pages[1]), calls |-> <<>>, described |-> <<>>]
    ELSE IF Has(ocr_response.dict, "markdown")
    THEN [out |-> Ok(Get(ocr_response.dict, "markdown").s), calls |-> <<>>, described |-> <<>>]
    ELSE RenderBlocks(BlocksOf(ocr_response), client, Len(BlocksOf(ocr_response)))

---------------------------------------------------------------------------
(* mistral_ocr/parser.py : MistralOCRParser.__init__ and parse_pdf         *)

\* a constructor that prefers the environment variable to its argument
NewParser_envFirst(api_key, env_key) ==
    LET key == IF Truthy(env_key) THEN env_key ELSE api_key
    IN  IF ~Truthy(key) THEN Raise("ValueError")
        ELSE Ok([api_key |-> key, client |-> [api_key |-> key]])

\* lines 35-40: the key is the argument or the environment variable; no
\* client is built without one
NewParser(api_key, env_key) ==
    LET key == IF Truthy(api_key) THEN api_key ELSE env_key
    IN  IF ~Truthy(key) THEN Raise("ValueError")
        ELSE Ok([api_key |-> key, client |-> [api_key |-> key]])

\* lines 93-99
UploadCall(file) == [endpoint |-> "files.upload", file_name |-> file.stem, purpose |-> "ocr"]

\* line 113
SignedUrlCall(file_id) == [endpoint |-> "files.get_signed_url", file_id |-> file_id, expiry |-> 1]

\* lines 129-133
OcrCall(document_url) ==
    [endpoint |-> "ocr.process", document_url |-> document_url,
     model |-> "mistral-ocr-latest", include_image_base64 |-> TRUE]

\* open(output_path, "w").write(markdown_output)
WriteFile(disk, path, content) ==
    [disk EXCEPT !.files = [p \in DOMAIN disk.files \cup {path} |->
                               IF p = path THEN content ELSE disk.files[p]],
                 !.writes = Append(@, <<path, content>>)]

\* a pipeline that hands the uploaded file's id, not the signed URL, to the OCR step
PipelineCalls_ocrOnFileId(file) ==
    <<UploadCall(file), SignedUrlCall(file.upload.id), OcrCall(file.upload.id)>>

\* lines 62-68: the three remote calls of the pipeline, in order
PipelineCalls(file) ==
    <<UploadCall(file), SignedUrlCall(file.upload.id), OcrCall(file.sign.url)>>

\* line 76: open(output_path, "w"): the directory must exist and the file
\* must be writable
OpenForWrite(file, disk) ==
    IF ~disk.dir THEN Raise("FileNotFoundError")
    ELSE IF ~file.writable THEN Raise("PermissionError")
    ELSE Ok(disk)

\* a pipeline that opens the output file before it normalizes: a run whose
\* normalizer raises leaves an empty file
SaveOutput_openFirst(markdown, file, output_path, disk) ==
    [out   |-> IF output_path # "" /\ ~OpenForWrite(file, disk).ok
               THEN OpenForWrite(file, disk) ELSE markdown.out,
     calls |-> PipelineCalls(file) \o markdown.calls,
     described |-> markdown.described,
     fs    |-> IF output_path # "" /\ OpenForWrite(file, disk).ok
               THEN WriteFile(disk, output_path,
                              IF markdown.out.ok THEN markdown.out.v ELSE "")
               ELSE disk]

\* lines 71-80: after the normalizer gave markdown, write it when a path is given
SaveOutput(markdown, file, output_path, disk) ==
    [out   |-> IF markdown.out.ok /\ output_path # "" /\ ~OpenForWrite(file, disk).ok
               THEN OpenForWrite(file, disk) ELSE markdown.out,
     calls |-> PipelineCalls(file) \o markdown.calls,
     described |-> markdown.described,
     fs    |-> IF markdown.out.ok /\ output_path # "" /\ OpenForWrite(file, disk).ok
               THEN WriteFile(disk, output_path, markdown.out.v) ELSE disk]

\* a pipeline that looks for the input file only after uploading it
parse_pdf_uploadFirst(file, output_path, disk) ==
    IF file.upload.raises # "None"
    THEN [out |-> Raise(file.upload.raises),
          calls |-> SubSeq(PipelineCalls(file), 1, 1), described |-> <<>>, fs |-> disk]
    ELSE IF ~file.exists
    THEN [out |-> Raise("FileNotFoundError"),
          calls |-> SubSeq(PipelineCalls(file), 1, 1), described |-> <<>>, fs |-> disk]
    ELSE IF file.sign.raises # "None"
    THEN [out |-> Raise(file.sign.raises),
          calls |-> SubSeq(PipelineCalls(file), 1, 2), described |-> <<>>, fs |-> disk]
    ELSE IF file.ocr.raises # "None"
    THEN [out |-> Raise(file.ocr.raises), calls |-> PipelineCalls(file),
          described |-> <<>>, fs |-> disk]
    ELSE SaveOutput(generate_markdown(file.ocr.response, file.client),
                    file, output_path, disk)

\* lines 55-80.  file is the input path with what the run meets on it: whether
\* it exists, what each remote step raises or returns, whether the output can
\* be opened for writing.  .out is the outcome, .calls the remote calls made,
\* .fs the disk afterwards.
parse_pdf(file, output_path, disk) ==
    IF ~file.exists
    THEN [out |-> Raise("FileNotFoundError"), calls |-> <<>>, described |-> <<>>, fs |-> disk]
    ELSE IF file.upload.raises # "None"
    THEN [out |-> Raise(file.upload.raises),
          calls |-> SubSeq(PipelineCalls(file), 1, 1), described |-> <<>>, fs |-> disk]
    ELSE IF file.sign.raises # "None"
    THEN [out |-> Raise(file.sign.raises),
          calls |-> SubSeq(PipelineCalls(file), 1, 2), described |-> <<>>, fs |-> disk]
    ELSE IF file.ocr.raises # "None"
    THEN [out |-> Raise(file.ocr.raises), calls |-> PipelineCalls(file),
          described |-> <<>>, fs |-> disk]
    ELSE SaveOutput(generate_markdown(file.ocr.response, file.client),
                    file, output_path, disk)

\* lines 203-221: the module-level parse_pdf function: build a parser, then
\* return what its parse_pdf method returns
module_parse_pdf(file, output_path, api_key, env_key, disk) ==
    IF ~NewParser(api_key, env_key).ok
    THEN [out |-> NewParser(api_key, env_key), calls |-> <<>>, described |-> <<>>, fs |-> disk]
    ELSE parse_pdf(file, output_path, disk)

---------------------------------------------------------------------------
(* mistral_ocr/utils.py : batch_process_pdfs                               *)

\* line 54: output_dir / f"{pdf_file.stem}.md"
OutputFile(output_dir, pdf_file) == output_dir \o "/" \o pdf_file.stem \o ".md"

\* a handler that only skips files it cannot find
BatchExcepts_missingOnly == {"FileNotFoundError"}

\* line 61
BatchExcepts == {"Exception"}

\* lines 52-62: the list after one file, whose parse_pdf gave parsed
Collect(before, parsed, output_file) ==
    [out   |-> IF parsed.out.ok THEN Ok(Append(before.out.v, output_file))
               ELSE IF Catches(BatchExcepts, parsed.out.exc) THEN before.out
               ELSE parsed.out,
     calls |-> before.calls \o parsed.calls,
     described |-> before.described \o parsed.described,
     fs    |-> parsed.fs]

\* lines 51-62: the iteration for the n-th file, after the ones before it
NextFile(before, pdf_file, output_dir) ==
    IF ~before.out.ok THEN before
    ELSE Collect(before,
                 parse_pdf(pdf_file, OutputFile(output_dir, pdf_file), before.fs),
                 OutputFile(output_dir, pdf_file))

\* lines 49-64: the loop over the first n files; .out is output_files
RECURSIVE ProcessFiles(_, _, _, _)
ProcessFiles(pdf_files, output_dir, disk, n) ==
    IF n = 0 THEN [out |-> Ok(<<>>), calls |-> <<>>, described |-> <<>>, fs |-> disk]
    ELSE NextFile(ProcessFiles(pdf_files, output_dir, disk, n - 1), pdf_files[n], output_dir)

\* line 34: output_dir.mkdir(parents=True, exist_ok=True)
Mkdir(disk) == [disk EXCEPT !.dir = TRUE]

\* a driver that builds the parser before it looks at the file list
batch_process_pdfs_parserFirst(pdf_files, output_dir, api_key, env_key, disk) ==
    LET made == Mkdir(disk)
        parser == NewParser(api_key, env_key)
    IN  IF ~parser.ok
        THEN [out |-> parser, calls |-> <<>>, described |-> <<>>, fs |-> made]
        ELSE IF pdf_files = <<>>
        THEN [out |-> Ok(<<>>), calls |-> <<>>, described |-> <<>>, fs |-> made]
        ELSE ProcessFiles(pdf_files, output_dir, made, Len(pdf_files))

\* lines 30-64: the whole function; pdf_files is what the glob enumerates
batch_process_pdfs(pdf_files, output_dir, api_key, env_key, disk) ==
    LET made == Mkdir(disk)
        parser == NewParser(api_key, env_key)
    IN  IF pdf_files = <<>>
        THEN [out |-> Ok(<<>>), calls |-> <<>>, described |-> <<>>, fs |-> made]
        ELSE IF ~parser.ok
        THEN [out |-> parser, calls |-> <<>>, described |-> <<>>, fs |-> made]
        ELSE ProcessFiles(pdf_files, output_dir, made, Len(pdf_files))

---------------------------------------------------------------------------
(* The calls and environments the model draws from *)

\* decoded sizes, an undecodable payload
ImagePayloads ==
    {Payload(TRUE, w, h) : w \in 1..MaxDim, h \in 1..MaxDim} \cup {Payload(FALSE, 0, 0)}

\* metadata values a reply may carry: mappings with any of type / dimensions /
\* content, and values that are not mappings
ReplyMetadataDicts ==
    {PyDict(SelectSeq(<< <<"type", PyStr("Graphic")>>,
                         <<"dimensions", PyStr("100x100")>>,
                         <<"content", PyStr("Solid red color")>> >>,
                      LAMBDA item : item[1] \in ks)) :
        ks \in SUBSET {"type", "dimensions", "content"}}

ReplyMetadataOthers ==
    {PyNone, PyStr("a chart"), PyStr("dimensions unknown"),
     PyList(<<>>), PyList(<<PyStr("dimensions")>>)}

ReplyDescriptions == {PyStr("A red square image"), PyStr(""), PyNone}

\* the mappings a reply may parse to: each of description, metadata and an
\* unrelated key present or absent
ReplyDictsWith(metadatas) ==
    {PyDict(d \o m \o x) :
        d \in {<<>>} \cup {<< <<"description", v>> >> : v \in ReplyDescriptions},
        m \in {<<>>} \cup {<< <<"metadata", v>> >> : v \in metadatas},
        x \in {<<>>, << <<"tags", PyList(<<>>)>> >>}}

ReplyDicts == ReplyDictsWith(ReplyMetadataDicts \cup ReplyMetadataOthers)

\* JSON values that are not mappings
JsonScalars == {PyNone, PyStr("a caption"), PyList(<<>>)}

ReplyContents ==
    {PyNone, PyStr("Not a JSON string")}
    \cup {JsonText(v) : v \in JsonScalars \cup ReplyDicts}
    \cup ReplyDictsWith({PyDict(<< <<"type", PyStr("Graphic")>> >>)})

Replies ==
    {Reply(c, PyNone) : c \in {"absent", "none", "empty"}}
    \cup {Reply("list", content) : content \in ReplyContents}

\* what the remote call may raise: a transport error, a validation error
RemoteErrors == {"ConnectionError", "ValueError"}

\* clients whose remote call raises
RaisingClients ==
    {Client(hc, e, Reply("empty", PyNone)) : hc \in BOOLEAN, e \in RemoteErrors}

\* clients whose remote call returns a reply
ReplyingClients == {Client(hc, "None", r) : hc \in BOOLEAN, r \in Replies}

DescribeCall(image_base64, client) ==
    [fn |-> "generate_image_description", image_base64 |-> image_base64, client |-> client]

\* no output directory
EmptyFs == [dir |-> FALSE, files |-> <<>>, writes |-> <<>>]

TextBlocks ==
    {PyDict(<< <<"type", PyStr("text")>>, <<"text", PyStr("Hello")>> >>),
     PyDict(<< <<"type", PyStr("text")>> >>)}

\* image blocks with a payload, with and without a display url, and one
\* whose payload does not decode to an image
DescribableBlocks ==
    {PyDict(<< <<"type", PyStr("image")>>,
               <<"image", PyDict(<< <<"base64", PyB64(Payload(TRUE, 1, 1))>>,
                                    <<"url", PyStr("fig1.png")>> >>)>> >>),
     PyDict(<< <<"type", PyStr("image")>>,
               <<"image", PyDict(<< <<"base64", PyB64(Payload(TRUE, 2, 1))>> >>)>> >>),
     PyDict(<< <<"type", PyStr("image")>>,
               <<"image", PyDict(<< <<"base64", PyB64(Payload(FALSE, 0, 0))>>,
                                    <<"url", PyStr("fig3.png")>> >>)>> >>)}

\* image blocks without payload, a block of another kind, a block without kind
OtherBlocks ==
    {PyDict(<< <<"type", PyStr("image")>>,
               <<"image", PyDict(<< <<"base64", PyB64(EmptyPayload)>>,
                                    <<"url", PyStr("fig2.png")>> >>)>> >>),
     PyDict(<< <<"type", PyStr("image")>> >>),
     PyDict(<< <<"type", PyStr("table")>>, <<"text", PyStr("cells")>> >>),
     PyDict(<< <<"text", PyStr("untyped")>> >>)}

Blocks == TextBlocks \cup DescribableBlocks \cup OtherBlocks

\* what the description call of one image block meets
BlockReplies ==
    {[raises |-> "ConnectionError", reply |-> Reply("empty", PyNone)],
     [raises |-> "None", reply |-> Reply("list", PyStr("Not a JSON string"))]}
    \cup {[raises |-> "None", reply |-> Reply("list", JsonText(d))] :
            d \in {PyDict(<<>>),
                   PyDict(<< <<"description", PyStr("A red square image")>> >>),
                   PyDict(<< <<"description", PyStr("A red square image")>>,
                             <<"metadata", PyDict(<< <<"type", PyStr("Graphic")>>,
                                                     <<"dimensions", PyStr("100x100")>> >>)>> >>),
                   PyDict(<< <<"description", PyStr("A chart")>>,
                             <<"metadata", PyStr("dimensions unknown")>> >>)}}

\* the pages attribute of a response: absent, empty, or two pages
ResponsePages ==
    {[hasPages |-> FALSE, pages |-> <<>>],
     [hasPages |-> TRUE, pages |-> <<>>],
     [hasPages |-> TRUE, pages |-> <<"# Page 1", "# Page 2">>]}

\* the top-level markdown key of a response's JSON form: absent or present
ResponseMarkdowns == {<<>>, << <<"markdown", PyStr("# Flat")>> >>}

\* an OCR response: its pages attribute and its JSON form, made of the
\* optional markdown key and the optional block list
OcrResponse(pages, markdown, blocks) ==
    [hasPages |-> pages.hasPages, pages |-> pages.pages, dict |-> PyDict(markdown \o blocks)]

\* the parser's client, with one behaviour per description call
ParserClient(replies) == [hasComplete |-> TRUE, replies |-> replies]

MarkdownCall(ocr_response, client) ==
    [fn |-> "_generate_markdown", ocr_response |-> ocr_response, client |-> client]

\* the paths a glob may enumerate; two of them share a stem
InputPaths == {"docs/a.pdf", "docs/b.pdf", "docs/c.pdf", "docs/sub/a.pdf"}

\* Path(p).stem
Stem(path) ==
    CASE path = "docs/a.pdf"     -> "a"
      [] path = "docs/b.pdf"     -> "b"
      [] path = "docs/c.pdf"     -> "c"
      [] path = "docs/sub/a.pdf" -> "a"

\* a response rendered from its first page
PagedResponse(path) ==
    [hasPages |-> TRUE, pages |-> <<"# " \o path>>, dict |-> PyDict(<<>>)]

\* a response whose one image block is described by the given reply
ImageResponse(content) ==
    [response |-> [hasPages |-> TRUE, pages |-> <<>>,
                   dict |-> PyDict(<< <<"blocks", PyList(<<
                       PyDict(<< <<"type", PyStr("image")>>,
                                 <<"image", PyDict(<< <<"base64",
                                     PyB64(Payload(TRUE, 1, 1))>> >>)>> >>) >>)>> >>)],
     client |-> [hasComplete |-> TRUE,
                 replies |-> <<[raises |-> "None", reply |-> Reply("list", content)]>>]]

NoReplies == [hasComplete |-> TRUE, replies |-> <<>>]

\* an input file whose pipeline succeeds, with the response of the OCR step
GoodFile(path, answer) ==
    [path |-> path, stem |-> Stem(path), exists |-> TRUE,
     upload |-> [raises |-> "None", id |-> "id:" \o path],
     sign |-> [raises |-> "None", url |-> "https://signed/" \o path],
     ocr |-> [raises |-> "None", response |-> answer.response],
     client |-> answer.client,
     writable |-> TRUE]

\* what the single-file pipeline may meet on one input path
FilesAt(path) ==
    LET paged == [response |-> PagedResponse(path), client |-> NoReplies]
        good == GoodFile(path, paged)
    IN  {good,
         GoodFile(path, ImageResponse(JsonText(PyDict(
                      << <<"description", PyStr("A red square image")>> >>)))),
         \* the description reply lacks `description`
         GoodFile(path, ImageResponse(JsonText(PyDict(<<>>)))),
         [good EXCEPT !.exists = FALSE],
         [good EXCEPT !.upload.raises = "ConnectionError"],
         [good EXCEPT !.sign.raises = "ConnectionError"],
         [good EXCEPT !.ocr.raises = "ConnectionError"],
         [good EXCEPT !.writable = FALSE]}

\* what a file of a batch may meet: success, a description reply without
\* `description`, a missing file, a failing upload, a failing OCR call
BatchFilesAt(path) ==
    LET good == GoodFile(path, [response |-> PagedResponse(path), client |-> NoReplies])
    IN  {good,
         GoodFile(path, ImageResponse(JsonText(PyDict(<<>>)))),
         [good EXCEPT !.exists = FALSE],
         [good EXCEPT !.upload.raises = "ConnectionError"],
         [good EXCEPT !.ocr.raises = "ConnectionError"]}

\* the input files of a batch
InputFiles == UNION {BatchFilesAt(p) : p \in InputPaths}

\* a glob enumerates distinct paths
DistinctPaths(files) == \A i, j \in 1..Len(files) : i # j => files[i].path # files[j].path

\* the output directory before the run: absent, or holding an older a.md
Disks ==
    {EmptyFs,
     [dir |-> TRUE, files |-> [p \in {"out/a.md"} |-> "# older"], writes |-> <<>>]}

ApiKeys == {PyNone, PyStr("sk-test")}

ParseCall(file, output_path, disk) ==
    [fn |-> "parse_pdf", file |-> file, output_path |-> output_path, disk |-> disk]

BatchCall(pdf_files, api_key, env_key, disk) ==
    [fn |-> "batch_process_pdfs", pdf_files |-> pdf_files, output_dir |-> "out",
     api_key |-> api_key, env_key |-> env_key, disk |-> disk]

\* the values the api_key argument and the MISTRAL_API_KEY variable may
\* hold: none, the empty string, a blank, keys
Credentials ==
    {PyNone, PyStr(""), PyStr(" "), PyStr("sk-arg"), PyStr("sk-env"), PyStr("sk-test")}

ConstructCall(api_key, env_key) ==
    [fn |-> "MistralOCRParser", api_key |-> api_key, env_key |-> env_key]

ParseFunctionCall(file, output_path, api_key, env_key, disk) ==
    [fn |-> "parse_pdf()", file |-> file, output_path |-> output_path,
     api_key |-> api_key, env_key |-> env_key, disk |-> disk]

\* image paths: a readable file, an unreadable one, a path that is no file
ImageFiles ==
    {ImageFile("receipt.jpg", TRUE, TRUE),
     ImageFile("private.jpg", TRUE, FALSE),
     ImageFile("missing.jpg", FALSE, FALSE)}

\* what client.ocr.process does for an image
ImageOcrReplies ==
    {[raises |-> e, pages |-> "absent", markdowns |-> <<>>] : e \in RemoteErrors}
    \cup {[raises |-> "None", pages |-> "absent", markdowns |-> <<>>],
          [raises |-> "None", pages |-> "none", markdowns |-> <<>>],
          [raises |-> "None", pages |-> "list", markdowns |-> <<>>],
          [raises |-> "None", pages |-> "list", markdowns |-> <<"# Receipt", "# Page 2">>]}

\* a record the parse call may return
ParsedRecord ==
    PyDict(<< <<"file_name", PyStr("receipt")>>,
              <<"topics", PyList(<<PyStr("shopping")>>)>>,
              <<"languages", PyList(<<PyStr("German")>>)>>,
              <<"ocr_contents", PyDict(<< <<"total", PyStr("12.50")>> >>)>> >>)

\* what client.chat.parse does
ParseReplies ==
    {[raises |-> e, choices |-> "empty", parsed |-> PyNone] : e \in RemoteErrors}
    \cup {[raises |-> "None", choices |-> c, parsed |-> PyNone] :
            c \in {"absent", "none", "empty"}}
    \cup {[raises |-> "None", choices |-> "list", parsed |-> v] :
            v \in {ParsedRecord, PyNone}}

\* the default model names of the signature, and others a caller may pass
OcrModels == {"mistral-ocr-latest", "mistral-ocr-2503"}
ParseModels == {"pixtral-12b-latest", "pixtral-large-latest"}

StructuredCall(image, client, ocr_model, parse_model, optimized) ==
    [fn |-> "structured_ocr", image |-> image, client |-> client,
     ocr_model |-> ocr_model, parse_model |-> parse_model, optimized |-> optimized]

NoResult == Raise("None")

---------------------------------------------------------------------------
(* The state machine *)

Start(c, disk) ==
    /\ pc = "ready"
    /\ call = c
    /\ result = NoResult
    /\ calls = <<>>
    /\ described = <<>>
    /\ fs = disk

\* a call of generate_image_description
InitDescribe ==
    \E image_base64 \in ImagePayloads :
        \/ \E client \in RaisingClients :
              Start(DescribeCall(image_base64, client), EmptyFs)
        \/ \E client \in ReplyingClients :
              Start(DescribeCall(image_base64, client), EmptyFs)

\* a call of _generate_markdown: a response, and one behaviour of the client
\* for each description call its block list asks for
InitMarkdown ==
    \E pages \in ResponsePages, markdown \in ResponseMarkdowns, n \in 0..MaxBlocks :
        \E bs \in [1..n -> Blocks] :
            \E replies \in [1..DescribedBefore(bs, n) -> BlockReplies] :
                \/ Start(MarkdownCall(OcrResponse(pages, markdown,
                                          << <<"blocks", PyList(bs)>> >>),
                                      ParserClient(replies)), EmptyFs)
                \/ /\ n = 0
                   /\ Start(MarkdownCall(OcrResponse(pages, markdown, <<>>),
                                         ParserClient(replies)), EmptyFs)

\* a call of batch_process_pdfs: what the glob enumerates, the keys, the disk
InitBatch ==
    \E n \in 0..MaxFiles, api_key \in ApiKeys, env_key \in ApiKeys, disk \in Disks :
        \E pdf_files \in [1..n -> InputFiles] :
            /\ DistinctPaths(pdf_files)
            /\ Start(BatchCall(pdf_files, api_key, env_key, disk), disk)

\* a call of MistralOCRParser.parse_pdf, with or without an output path
InitParse ==
    \E path \in InputPaths, output_path \in {"", "out/a.md", "out/new.md"}, disk \in Disks :
        \E file \in FilesAt(path) :
            Start(ParseCall(file, output_path, disk), disk)

\* a call of structured_ocr
InitStructured ==
    \E image \in ImageFiles, optimized \in BOOLEAN,
       ocr_model \in OcrModels, parse_model \in ParseModels :
        \E ocr \in ImageOcrReplies, parse \in ParseReplies :
            Start(StructuredCall(image, StructuredClient(ocr, parse),
                                 ocr_model, parse_model, optimized), EmptyFs)

\* a construction MistralOCRParser(api_key) under an environment
InitConstruct ==
    \E api_key \in Credentials, env_key \in Credentials, disk \in Disks :
        Start(ConstructCall(api_key, env_key), disk)

\* a call of the module-level parse_pdf
InitParseFunction ==
    \E path \in InputPaths, output_path \in {"", "out/a.md"}, disk \in Disks :
        \E file \in FilesAt(path), api_key \in ApiKeys, env_key \in ApiKeys :
            Start(ParseFunctionCall(file, output_path, api_key, env_key, disk), disk)

Init ==
    \/ InitDescribe
    \/ InitStructured
    \/ InitMarkdown
    \/ InitConstruct
    \/ InitParse
    \/ InitParseFunction
    \/ InitBatch

Finish(outcome) ==
    /\ result' = outcome
    /\ pc' = IF outcome.ok THEN "returned" ELSE "raised"

GenerateImageDescription ==
    /\ pc = "ready"
    /\ call.fn = "generate_image_description"
    /\ LET r == generate_image_description(call.image_base64, call.client)
       IN  /\ Finish(r.out)
           /\ calls' = r.calls
    /\ UNCHANGED <<call, described, fs>>

GenerateMarkdown ==
    /\ pc = "ready"
    /\ call.fn = "_generate_markdown"
    /\ LET r == generate_markdown(call.ocr_response, call.client)
       IN  /\ Finish(r.out)
           /\ calls' = r.calls
           /\ described' = r.described
    /\ UNCHANGED <<call, fs>>

ParsePdf ==
    /\ pc = "ready"
    /\ call.fn = "parse_pdf"
    /\ LET r == parse_pdf(call.file, call.output_path, fs)
       IN  /\ Finish(r.out)
           /\ calls' = r.calls
           /\ described' = r.described
           /\ fs' = r.fs
    /\ UNCHANGED call

StructuredOcr ==
    /\ pc = "ready"
    /\ call.fn = "structured_ocr"
    /\ LET r == structured_ocr(call.image, call.client, call.ocr_model,
                               call.parse_model, call.optimized)
       IN  /\ Finish(r.out)
           /\ calls' = r.calls
    /\ UNCHANGED <<call, described, fs>>

Construct ==
    /\ pc = "ready"
    /\ call.fn = "MistralOCRParser"
    /\ Finish(NewParser(call.api_key, call.env_key))
    /\ UNCHANGED <<call, calls, described, fs>>

ModuleParsePdf ==
    /\ pc = "ready"
    /\ call.fn = "parse_pdf()"
    /\ LET r == module_parse_pdf(call.file, call.output_path,
                                 call.api_key, call.env_key, fs)
       IN  /\ Finish(r.out)
           /\ calls' = r.calls
           /\ described' = r.described
           /\ fs' = r.fs
    /\ UNCHANGED call

BatchProcessPdfs ==
    /\ pc = "ready"
    /\ call.fn = "batch_process_pdfs"
    /\ LET r == batch_process_pdfs(call.pdf_files, call.output_dir,
                                   call.api_key, call.env_key, fs)
       IN  /\ Finish(r.out)
           /\ calls' = r.calls
           /\ described' = r.described
           /\ fs' = r.fs
    /\ UNCHANGED call

Next ==
    \/ GenerateImageDescription
    \/ StructuredOcr
    \/ GenerateMarkdown
    \/ Construct
    \/ ParsePdf
    \/ ModuleParsePdf
    \/ BatchProcessPdfs

Spec == Init /\ [][Next]_vars

\* the calls of one function alone
NextDescribe == GenerateImageDescription
SpecDescribe == InitDescribe /\ [][NextDescribe]_vars

NextMarkdown == GenerateMarkdown
SpecMarkdown == InitMarkdown /\ [][NextMarkdown]_vars

NextParse == ParsePdf
SpecParse == InitParse /\ [][NextParse]_vars

NextBatch == BatchProcessPdfs
SpecBatch == InitBatch /\ [][NextBatch]_vars

NextStructured == StructuredOcr
SpecStructured == InitStructured /\ [][NextStructured]_vars

NextConstruct == Construct
SpecConstruct == InitConstruct /\ [][NextConstruct]_vars

NextParseFunction == ModuleParsePdf
SpecParseFunction == InitParseFunction /\ [][NextParseFunction]_vars

---------------------------------------------------------------------------
(* Properties of generate_image_description *)

Described == call.fn = "generate_image_description" /\ pc # "ready"

\* the reply's content, when the remote call returned a reply with a first choice
GotContent ==
    /\ Described
    /\ call.client.raises = "None"
    /\ call.client.reply.choices = "list"

\* "<w>x<h>" of the payload that was passed
PayloadDimensions ==
    ToString(call.image_base64.width) \o "x" \o ToString(call.image_base64.height)

DefaultWithDimensions ==
    PyDict(<< <<"description", PyStr("An image from the document")>>,
              <<"metadata", PyDict(<< <<"type", PyStr("Unknown")>>,
                                      <<"dimensions", PyStr(PayloadDimensions)>> >>)>> >>)

DefaultWithoutDimensions ==
    PyDict(<< <<"description", PyStr("An image from the document")>>,
              <<"metadata", PyDict(<< <<"type", PyStr("Unknown")>> >>)>> >>)

\* C1: generate_image_description never raises: whatever the payload and
\* whatever the client does (raises, no choices, non-JSON, JSON that is not
\* a mapping, a mapping of any shape), the call returns a mapping.
C1_NeverRaises ==
    Described => pc = "returned" /\ result.ok /\ result.v.t = "dict"

\* a decoded image whose remote call raised a transport error, and the call returned
C1_Witness ==
    /\ Described
    /\ call.image_base64.decodes
    /\ call.client.raises = "ConnectionError"
    /\ pc = "returned"

\* C2: the returned mapping has a `description` holding a non-empty string
\* and a `metadata` mapping with a `type` key, for every outcome of the
\* remote call.
C2_DescriptionAndType ==
    Described /\ pc = "returned" =>
        /\ Has(result.v, "description")
        /\ Get(result.v, "description").t = "str"
        /\ Get(result.v, "description").s # ""
        /\ Has(result.v, "metadata")
        /\ Get(result.v, "metadata").t = "dict"
        /\ Has(Get(result.v, "metadata"), "type")

\* the reply's content is neither a mapping nor JSON text of a mapping
C3_Unusable ==
    /\ GotContent
    /\ call.image_base64.decodes
    /\ LET content == call.client.reply.content
       IN  /\ content.t # "dict"
           /\ content.t = "json" => content.v.t # "dict"

\* C3: with a decoded image of w x h, a reply whose content does not parse
\* as JSON (and is not itself a mapping) or parses to a non-mapping gives
\* exactly the default result with dimensions "<w>x<h>".
C3_UnparsableGivesDefault ==
    C3_Unusable => pc = "returned" /\ result.v = DefaultWithDimensions

\* a 2x1 image and a reply that is not JSON
C3_Witness ==
    /\ C3_Unusable
    /\ call.client.reply.content = PyStr("Not a JSON string")
    /\ call.image_base64.width = 2 /\ call.image_base64.height = 1
    /\ pc = "returned"
    /\ Get(Get(result.v, "metadata"), "dimensions") = PyStr("2x1")

\* the mapping the reply parsed to
C4_Parsed ==
    LET content == call.client.reply.content
    IN  IF content.t = "json" THEN content.v ELSE content

\* the reply parsed to a mapping whose metadata is absent or a mapping
C4_Mapping ==
    /\ GotContent
    /\ call.image_base64.decodes
    /\ C4_Parsed.t = "dict"
    /\ Has(C4_Parsed, "metadata") => Get(C4_Parsed, "metadata").t = "dict"

\* C4: a reply mapping without `metadata` gets metadata.dimensions "<w>x<h>";
\* a `metadata` mapping without `dimensions` gets it too; supplied
\* dimensions stay; every other key of the reply is returned unchanged.
C4_DimensionsFilled ==
    C4_Mapping =>
        /\ pc = "returned"
        /\ Keys(result.v) = Keys(C4_Parsed) \cup {"metadata"}
        /\ \A k \in Keys(C4_Parsed) \ {"metadata"} : Get(result.v, k) = Get(C4_Parsed, k)
        /\ LET out == Get(result.v, "metadata")
               given == IF Has(C4_Parsed, "metadata")
                        THEN Get(C4_Parsed, "metadata") ELSE PyDict(<<>>)
           IN  /\ out.t = "dict"
               /\ Keys(out) = Keys(given) \cup {"dimensions"}
               /\ \A k \in Keys(given) : Get(out, k) = Get(given, k)
               /\ ~Has(given, "dimensions") =>
                      Get(out, "dimensions") = PyStr(PayloadDimensions)

\* a reply without metadata, answered with the decoded size
C4_Witness ==
    /\ C4_Mapping
    /\ ~Has(C4_Parsed, "metadata")
    /\ Has(C4_Parsed, "description")
    /\ pc = "returned"
    /\ Get(result.v, "metadata") = PyDict(<< <<"dimensions", PyStr("1x2")>> >>)

\* an exception was raised by the decode, the remote call or the parsing
C5_Failed ==
    /\ Described
    /\ \/ ~call.image_base64.decodes
       \/ call.client.raises # "None"
       \/ call.client.reply.choices # "list"
       \/ call.client.reply.content.t \in {"none", "str"}

\* C5: any exception is converted to the default fallback, whose metadata
\* lacks `dimensions` only when the decode itself failed.
C5_FallbackKeepsDimensions ==
    C5_Failed =>
        /\ pc = "returned"
        /\ result.v = IF call.image_base64.decodes
                      THEN DefaultWithDimensions ELSE DefaultWithoutDimensions

---------------------------------------------------------------------------
(* Properties of _generate_markdown *)

Normalized == call.fn = "_generate_markdown" /\ pc # "ready"

\* C6: a response with a non-empty pages list is rendered as the markdown
\* of its first page, whatever its blocks or top-level markdown, and no
\* description call is made.
C6_FirstPageVerbatim ==
    Normalized /\ call.ocr_response.hasPages /\ call.ocr_response.pages # <<>> =>
        /\ pc = "returned"
        /\ result.v = Head(call.ocr_response.pages)
        /\ calls = <<>>

\* two pages, a top-level markdown and a block list holding a describable image
C6_Witness ==
    /\ Normalized
    /\ Len(call.ocr_response.pages) = 2
    /\ Has(call.ocr_response.dict, "markdown")
    /\ \E i \in 1..Len(BlocksOf(call.ocr_response)) :
            Describable(BlocksOf(call.ocr_response)[i])
    /\ pc = "returned"
    /\ result.v = "# Page 1"

\* the response has neither pages nor a top-level markdown: its blocks are rendered
RendersBlocks ==
    /\ Normalized
    /\ ~(call.ocr_response.hasPages /\ call.ocr_response.pages # <<>>)
    /\ ~Has(call.ocr_response.dict, "markdown")

\* "- key: value" lines of a metadata mapping, in its order
RECURSIVE C7_Bullets(_, _)
C7_Bullets(metadata, n) ==
    IF n = 0 THEN ""
    ELSE C7_Bullets(metadata, n - 1)
         \o "- " \o metadata.items[n][1] \o ": " \o metadata.items[n][2].s \o "\n"

\* the description the composer returns for the i-th block
C7_Description(i) ==
    LET blocks == BlocksOf(call.ocr_response)
    IN  generate_image_description(
            BlockPayload(blocks[i]),
            ClientAt(call.client, DescribedBefore(blocks, i))).out.v

\* the fragment expected of the i-th block
C7_Fragment(i) ==
    LET block == BlocksOf(call.ocr_response)[i]
        kind == IF Has(block, "type") THEN Get(block, "type") ELSE PyNone
    IN  IF kind = PyStr("text")
        THEN (IF Has(block, "text") THEN Get(block, "text").s ELSE "") \o "\n\n"
        ELSE IF kind = PyStr("image") /\ Has(block, "image")
                /\ Has(Get(block, "image"), "base64")
                /\ ~Get(Get(block, "image"), "base64").p.empty
        THEN LET image == Get(block, "image")
                 d == C7_Description(i)
                 metadata == Get(d, "metadata")
             IN  "![Image](" \o (IF Has(image, "url") THEN Get(image, "url").s
                                 ELSE "image_placeholder.png") \o ")\n"
                 \o "*Image Description: " \o Get(d, "description").s \o "*\n\n"
                 \o (IF metadata.items = <<>> THEN ""
                     ELSE "**Image Metadata:**\n"
                          \o C7_Bullets(metadata, Len(metadata.items)) \o "\n")
        ELSE ""

RECURSIVE C7_Concat(_)
C7_Concat(n) == IF n = 0 THEN "" ELSE C7_Concat(n - 1) \o C7_Fragment(n)

\* C7: without pre-rendered Markdown the output is the concatenation, in
\* block order, of one fragment per block: a text block's text and a blank
\* line; for an image block with payload the image reference line, the
\* italic description line with the composer's description and, when the
\* metadata is not empty, its bulleted list.
C7_BlocksInOrder ==
    RendersBlocks =>
        /\ pc = "returned"
        /\ result.v = C7_Concat(Len(BlocksOf(call.ocr_response)))

\* the same, for the calls that return
C7_ReturnedInOrder ==
    RendersBlocks /\ pc = "returned" =>
        result.v = C7_Concat(Len(BlocksOf(call.ocr_response)))

\* blocks [text "Hello", image] with a described image
C7_HelloImage ==
    /\ RendersBlocks
    /\ Len(BlocksOf(call.ocr_response)) = 2
    /\ pc = "returned"
    /\ result.v = "Hello\n\n![Image](fig1.png)\n*Image Description: A red square image*\n\n"
                  \o "**Image Metadata:**\n- dimensions: 1x1\n\n"

\* the blocks that are rendered: text blocks and image blocks with a payload
C8_Rendered(block) ==
    \/ Has(block, "type") /\ Get(block, "type") = PyStr("text")
    \/ /\ Has(block, "type") /\ Get(block, "type") = PyStr("image")
       /\ Has(block, "image") /\ Has(Get(block, "image"), "base64")
       /\ ~Get(Get(block, "image"), "base64").p.empty

\* the response with only its rendered blocks
C8_WithoutSkipped ==
    [call.ocr_response EXCEPT !.dict =
        Set(@, "blocks", PyList(SelectSeq(BlocksOf(call.ocr_response), C8_Rendered)))]

\* the image blocks among the rendered ones
C8_Images ==
    {i \in 1..Len(BlocksOf(call.ocr_response)) :
        /\ C8_Rendered(BlocksOf(call.ocr_response)[i])
        /\ Get(BlocksOf(call.ocr_response)[i], "type") = PyStr("image")}

\* C8: blocks of another or no kind and image blocks without payload
\* contribute nothing, trigger no description call and raise no error: the
\* outcome and the description calls are those of the list without them,
\* and a list of such blocks alone gives the empty output.
C8_SkippedBlocksSilent ==
    RendersBlocks /\ Has(call.ocr_response.dict, "blocks") =>
        LET rest == generate_markdown(C8_WithoutSkipped, call.client)
        IN  /\ result = rest.out
            /\ calls = rest.calls
            /\ described = rest.described
            /\ Len(calls) <= Len(described)
            /\ Len(described) <= Cardinality(C8_Images)
            /\ pc = "returned" => Len(described) = Cardinality(C8_Images)
            /\ C8_Images = {} /\ pc = "raised" => FALSE
            /\ (\A i \in 1..Len(BlocksOf(call.ocr_response)) :
                    ~C8_Rendered(BlocksOf(call.ocr_response)[i]))
                => pc = "returned" /\ result.v = "" /\ calls = <<>> /\ described = <<>>

\* a text block between a payload-less image block and a block of unknown kind
C8_Witness ==
    /\ RendersBlocks
    /\ \E i, j \in 1..Len(BlocksOf(call.ocr_response)) :
          /\ i # j
          /\ ~C8_Rendered(BlocksOf(call.ocr_response)[i])
          /\ GetOr(BlocksOf(call.ocr_response)[i], "type", PyNone) = PyStr("image")
          /\ GetOr(BlocksOf(call.ocr_response)[j], "type", PyNone) = PyStr("text")
    /\ pc = "returned"
    /\ result.v = "Hello\n\n"
    /\ calls = <<>>
    /\ described = <<>>

---------------------------------------------------------------------------
(* Properties of batch_process_pdfs *)

Batched == call.fn = "batch_process_pdfs" /\ pc # "ready"

\* a key is given, as argument or in the environment
HasKey == call.api_key # PyNone \/ call.env_key # PyNone

\* every step of the single-file pipeline succeeds on the file
C9_Succeeds(file) ==
    /\ file.exists
    /\ file.upload.raises = "None"
    /\ file.sign.raises = "None"
    /\ file.ocr.raises = "None"
    /\ generate_markdown(file.ocr.response, file.client).out.ok
    /\ file.writable

\* the output paths of the files that succeed, in enumeration order
C9_Outputs ==
    LET good == SelectSeq(call.pdf_files, C9_Succeeds)
    IN  [i \in 1..Len(good) |-> "out/" \o good[i].stem \o ".md"]

\* the upload calls of a run, in order
C9_Uploads == SelectSeq(calls, LAMBDA c : c.endpoint = "files.upload")

\* C9: a file whose pipeline raises does not end the batch: every other
\* file is still processed, and the list returned holds exactly the output
\* paths of the files that succeeded, in enumeration order.
C9_BatchContinues ==
    Batched /\ HasKey /\ call.pdf_files # <<>> =>
        /\ pc = "returned"
        /\ result.v = C9_Outputs
        /\ LET present == SelectSeq(call.pdf_files, LAMBDA f : f.exists)
           IN  C9_Uploads = [i \in 1..Len(present) |-> UploadCall(present[i])]

\* three files of which the second fails in a remote step: the outputs of
\* the first and the third are returned, and all three were uploaded
C9_Witness ==
    /\ Batched /\ HasKey
    /\ Len(call.pdf_files) = 3
    /\ C9_Succeeds(call.pdf_files[1])
    /\ call.pdf_files[2].ocr.raises = "ConnectionError"
    /\ C9_Succeeds(call.pdf_files[3])
    /\ pc = "returned"
    /\ result.v = <<"out/" \o call.pdf_files[1].stem \o ".md",
                    "out/" \o call.pdf_files[3].stem \o ".md">>
    /\ Len(C9_Uploads) = 3

\* C10: with no matching file the function returns the empty list, the
\* output directory exists afterwards, no file is written into it and no
\* remote call is made.
C10_EmptyBatch ==
    Batched /\ call.pdf_files = <<>> =>
        /\ pc = "returned"
        /\ result.v = <<>>
        /\ fs.dir
        /\ fs.files = call.disk.files
        /\ calls = <<>>

\* no matching file, no key, no output directory before the run
C10_Witness ==
    /\ Batched
    /\ call.pdf_files = <<>>
    /\ ~HasKey
    /\ ~call.disk.dir
    /\ pc = "returned"
    /\ fs.dir

---------------------------------------------------------------------------
(* Properties of structured_ocr and of the error handling as a whole *)

Structured == call.fn = "structured_ocr" /\ pc # "ready"

\* the image was read: the remote calls of structured_ocr are attempted
ImageRead == Structured /\ call.image.is_file /\ call.image.readable

\* C11: a failing or malformed remote reply never reaches the caller:
\* _generate_markdown returns whatever the description calls of its image
\* blocks meet (an exception, no JSON, no mapping, a mapping of any shape),
\* and structured_ocr returns whatever its OCR and parse calls meet.
C11_NeverPropagates ==
    /\ Normalized => pc = "returned"
    /\ ImageRead => pc = "returned"

\* the input files of the run: those of a batch, the one of a single parse
C12_Files ==
    IF call.fn = "batch_process_pdfs" THEN call.pdf_files
    ELSE IF call.fn \in {"parse_pdf", "parse_pdf()"} THEN <<call.file>>
    ELSE <<>>

\* how many calls of the run satisfy P
C12_Count(P(_)) == Len(SelectSeq(calls, P))

\* the image blocks that ask for a description, over the first n files
RECURSIVE C12_ImagesOf(_, _)
C12_ImagesOf(files, n) ==
    IF n = 0 THEN 0
    ELSE C12_ImagesOf(files, n - 1)
         + DescribedBefore(BlocksOf(files[n].ocr.response),
                           Len(BlocksOf(files[n].ocr.response)))

\* the image blocks of the run that ask for a description
C12_Images ==
    IF call.fn = "_generate_markdown"
    THEN DescribedBefore(BlocksOf(call.ocr_response), Len(BlocksOf(call.ocr_response)))
    ELSE IF call.fn = "generate_image_description" THEN 1
    ELSE C12_ImagesOf(C12_Files, Len(C12_Files))

\* C12: nothing is retried.  In every run each input file is uploaded at
\* most once, a signed URL is requested at most once per uploaded id, the
\* OCR call is made at most once per signed URL, at most one description
\* call is made per image block with a payload (one per composer
\* invocation), and structured_ocr makes at most one OCR and one parse
\* call; a call that raised is among those and is not repeated.
C12_NoRetries ==
    pc # "ready" =>
        /\ \A i \in 1..Len(C12_Files) :
              /\ C12_Count(LAMBDA c : c.endpoint = "files.upload"
                                      /\ c.file_name = C12_Files[i].stem)
                     <= Cardinality({j \in 1..Len(C12_Files) :
                                        C12_Files[j].stem = C12_Files[i].stem})
              /\ C12_Count(LAMBDA c : c.endpoint = "files.get_signed_url"
                                      /\ c.file_id = C12_Files[i].upload.id) <= 1
              /\ C12_Count(LAMBDA c : c.endpoint = "ocr.process"
                                      /\ c.document_url = C12_Files[i].sign.url) <= 1
        /\ C12_Count(LAMBDA c : c.endpoint = "files.upload") <= Len(C12_Files)
        /\ C12_Count(LAMBDA c : c.endpoint \in {"chat.complete", "chat"}) <= C12_Images
        /\ call.fn = "structured_ocr" =>
              /\ C12_Count(LAMBDA c : c.endpoint = "ocr.process") <= 1
              /\ C12_Count(LAMBDA c : c.endpoint = "chat.parse") <= 1
              /\ Len(calls) <= 2
        /\ call.fn = "MistralOCRParser" => calls = <<>>

\* a block list with one image whose description call raises: one call was
\* made, and the fallback description was rendered
C12_Witness ==
    /\ RendersBlocks
    /\ C12_Images = 1
    /\ call.client.replies[1].raises = "ConnectionError"
    /\ pc = "returned"
    /\ Len(calls) = 1
    /\ Contains(result.v, "*Image Description: An image from the document*")

---------------------------------------------------------------------------
(* Properties of MistralOCRParser and its parse_pdf *)

Constructed == call.fn = "MistralOCRParser" /\ pc # "ready"

\* a key is supplied: a string that is not empty
C13_Given(key) == key.t = "str" /\ Len(key.s) > 0

\* C13: the client is built with the api_key argument when it holds a key,
\* else with the value of MISTRAL_API_KEY; when neither holds a non-empty
\* key the constructor raises ValueError, no client exists and no remote
\* call was made.
C13_CredentialResolution ==
    Constructed =>
        /\ calls = <<>>
        /\ C13_Given(call.api_key) =>
              /\ pc = "returned"
              /\ result.v.api_key = call.api_key
              /\ result.v.client.api_key = call.api_key
        /\ ~C13_Given(call.api_key) /\ C13_Given(call.env_key) =>
              /\ pc = "returned"
              /\ result.v.api_key = call.env_key
              /\ result.v.client.api_key = call.env_key
        /\ ~C13_Given(call.api_key) /\ ~C13_Given(call.env_key) =>
              /\ pc = "raised"
              /\ result = Raise("ValueError")

\* an empty argument and a key in the environment: the client holds the
\* environment's key
C13_Witness ==
    /\ Constructed
    /\ call.api_key = PyStr("")
    /\ call.env_key = PyStr("sk-env")
    /\ pc = "returned"
    /\ result.v.client.api_key = PyStr("sk-env")

\* a call of the parse_pdf method, or of the module-level function with a key
SingleParsed ==
    /\ pc # "ready"
    /\ \/ call.fn = "parse_pdf"
       \/ call.fn = "parse_pdf()" /\ HasKey

\* the indices of the batch's files that satisfy P
C14_Indices(P(_)) == {i \in 1..Len(call.pdf_files) : P(call.pdf_files[i])}

\* C14: parse_pdf on a path that does not exist raises FileNotFoundError
\* with no remote call made and the disk untouched; in a batch a missing
\* file is not uploaded and gives no output, while every file that exists is
\* uploaded and every file whose pipeline succeeds has its output written
\* and returned.
C14_MissingFile ==
    /\ SingleParsed /\ ~call.file.exists =>
          /\ pc = "raised"
          /\ result = Raise("FileNotFoundError")
          /\ calls = <<>>
          /\ fs = call.disk
    /\ Batched /\ HasKey /\ call.pdf_files # <<>> =>
          /\ pc = "returned"
          /\ Len(C9_Uploads) = Cardinality(C14_Indices(LAMBDA f : f.exists))
          /\ Len(result.v) = Cardinality(C14_Indices(C9_Succeeds))
          /\ \A i \in 1..Len(call.pdf_files) :
                LET f == call.pdf_files[i]
                IN  /\ ~f.exists =>
                          \A k \in 1..Len(calls) :
                              /\ calls[k].endpoint = "files.get_signed_url"
                                     => calls[k].file_id # f.upload.id
                              /\ calls[k].endpoint = "ocr.process"
                                     => calls[k].document_url # f.sign.url
                    /\ C9_Succeeds(f) =>
                          /\ \E k \in 1..Len(result.v) :
                                 result.v[k] = OutputFile("out", f)
                          /\ OutputFile("out", f) \in DOMAIN fs.files

\* three files of which the second does not exist: the first and the third
\* are uploaded and their outputs returned
C14_Witness ==
    /\ Batched /\ HasKey
    /\ Len(call.pdf_files) = 3
    /\ C9_Succeeds(call.pdf_files[1])
    /\ ~call.pdf_files[2].exists
    /\ C9_Succeeds(call.pdf_files[3])
    /\ pc = "returned"
    /\ Len(result.v) = 2
    /\ Len(C9_Uploads) = 2

\* a single parse of a missing path, with an older output on disk
C14_SingleWitness ==
    /\ call.fn = "parse_pdf"
    /\ ~call.file.exists
    /\ call.output_path = "out/a.md"
    /\ pc = "raised"
    /\ fs.dir /\ fs.files["out/a.md"] = "# older"

\* the remote steps a single parse gets to: 1 when the upload raises, 2 when
\* the signing raises, else 3
C15_Steps ==
    IF call.file.upload.raises # "None" THEN 1
    ELSE IF call.file.sign.raises # "None" THEN 2
    ELSE 3

\* what the step that ends the pipeline early raises ("None": no step does)
C15_Raised ==
    IF call.file.upload.raises # "None" THEN call.file.upload.raises
    ELSE IF call.file.sign.raises # "None" THEN call.file.sign.raises
    ELSE call.file.ocr.raises

\* the remote calls of the pipeline in their order
C15_Expected ==
    <<[endpoint |-> "files.upload", file_name |-> call.file.stem, purpose |-> "ocr"],
      [endpoint |-> "files.get_signed_url", file_id |-> call.file.upload.id, expiry |-> 1],
      [endpoint |-> "ocr.process", document_url |-> call.file.sign.url,
       model |-> "mistral-ocr-latest", include_image_base64 |-> TRUE]>>

\* C15: parse_pdf on an existing file uploads, then requests a signed URL
\* for the uploaded id with expiry 1, then runs OCR on the signed URL, then
\* normalizes, then writes when a path is given.  A step that raises ends
\* the run: no later remote call is made, the exception reaches the caller
\* and nothing is written; the file is written only when the normalizer
\* returned, with its output.
C15_PipelineOrder ==
    call.fn = "parse_pdf" /\ pc # "ready" /\ call.file.exists =>
        /\ Len(calls) >= C15_Steps
        /\ SubSeq(calls, 1, C15_Steps) = SubSeq(C15_Expected, 1, C15_Steps)
        /\ \A k \in C15_Steps + 1 .. Len(calls) :
               calls[k].endpoint \in {"chat.complete", "chat"}
        /\ C15_Raised # "None" =>
              /\ Len(calls) = C15_Steps
              /\ pc = "raised"
              /\ result = Raise(C15_Raised)
        /\ pc = "raised" => fs = call.disk
        /\ pc = "returned" /\ call.output_path = "" => fs = call.disk
        /\ pc = "returned" /\ call.output_path # "" =>
              /\ fs.dir = call.disk.dir
              /\ DOMAIN fs.files = DOMAIN call.disk.files \cup {call.output_path}
              /\ fs.files[call.output_path] = result.v
              /\ \A q \in DOMAIN call.disk.files \ {call.output_path} :
                     fs.files[q] = call.disk.files[q]

\* the signing step raises: upload and signing were called, OCR was not,
\* and the older output is still on disk
C15_Witness ==
    /\ call.fn = "parse_pdf"
    /\ call.file.sign.raises = "ConnectionError"
    /\ call.output_path = "out/a.md"
    /\ pc = "raised"
    /\ Len(calls) = 2
    /\ calls[2].endpoint = "files.get_signed_url"
    /\ fs.dir /\ fs.files["out/a.md"] = "# older"

\* every step succeeds and the output replaces the older file
C15_WrittenWitness ==
    /\ call.fn = "parse_pdf"
    /\ call.output_path = "out/a.md"
    /\ call.disk.dir
    /\ pc = "returned"
    /\ Len(calls) = 4
    /\ fs.files["out/a.md"] = result.v
    /\ result.v # "# older"

---------------------------------------------------------------------------
(* Properties of structured_ocr *)

\* some step of structured_ocr fails: the path is no file, the file cannot
\* be read, the OCR call raises, the parse call raises, or its reply has no
\* first choice
C16_Fails ==
    /\ Structured
    /\ \/ ~call.image.is_file
       \/ ~call.image.readable
       \/ call.client.ocr.raises # "None"
       \/ call.client.parse.raises # "None"
       \/ call.client.parse.choices # "list"

\* the default record for the input file
C16_Default ==
    PyDict(<< <<"file_name", PyStr(call.image.name)>>,
              <<"topics", PyList(<<PyStr("document")>>)>>,
              <<"languages", PyList(<<PyStr("English")>>)>>,
              <<"ocr_contents", PyDict(<< <<"text", PyStr("OCR processing failed")>> >>)>> >>)

\* C16: on any failure structured_ocr returns the default record
\* {file_name: <name of the input file>, topics: ["document"],
\* languages: ["English"], ocr_contents: {"text": "OCR processing failed"}}
\* and does not raise.
C16_DefaultOnFailure ==
    C16_Fails => pc = "returned" /\ result.v = C16_Default

\* the same for the failures that follow the read of the image
C16_DefaultAfterRead ==
    C16_Fails /\ ImageRead => pc = "returned" /\ result.v = C16_Default

---------------------------------------------------------------------------
(* Properties of the outputs of batch_process_pdfs and parse_pdf *)

\* the Markdown the normalizer gives for an input file
MarkdownOf(file) == generate_markdown(file.ocr.response, file.client).out.v

\* the paths written by the run: new, or holding another content than before
WrittenPaths ==
    {q \in DOMAIN fs.files :
        q \notin DOMAIN call.disk.files \/ fs.files[q] # call.disk.files[q]}

\* the pipeline succeeds on every file of the batch
C17_AllSucceed ==
    /\ Batched /\ HasKey
    /\ call.pdf_files # <<>>
    /\ \A i \in 1..Len(call.pdf_files) : C9_Succeeds(call.pdf_files[i])

\* C17: when every matched input is processed successfully, each input has
\* an output file of its own: as many distinct files are written, and as
\* many distinct paths returned, as there are inputs, and each input's
\* output holds that input's Markdown, also for inputs with the same stem.
C17_OneOutputPerInput ==
    C17_AllSucceed =>
        /\ pc = "returned"
        /\ Cardinality({result.v[k] : k \in 1..Len(result.v)}) = Len(call.pdf_files)
        /\ Cardinality(WrittenPaths) = Len(call.pdf_files)
        /\ \A i \in 1..Len(call.pdf_files) :
               fs.files[OutputFile(call.output_dir, call.pdf_files[i])]
                   = MarkdownOf(call.pdf_files[i])

\* the same for inputs whose stems differ
C17_DistinctStems ==
    C17_AllSucceed
    /\ (\A i, j \in 1..Len(call.pdf_files) :
            i # j => call.pdf_files[i].stem # call.pdf_files[j].stem)
    =>  /\ pc = "returned"
        /\ Cardinality({result.v[k] : k \in 1..Len(result.v)}) = Len(call.pdf_files)
        /\ Cardinality(WrittenPaths) = Len(call.pdf_files)
        /\ \A i \in 1..Len(call.pdf_files) :
               fs.files[OutputFile(call.output_dir, call.pdf_files[i])]
                   = MarkdownOf(call.pdf_files[i])

\* the directory part of a path
ParentOf(path) ==
    LET slashes == {i \in 1..Len(path) : SubSeq(path, i, i) = "/"}
        last == CHOOSE i \in slashes : \A j \in slashes : j <= i
    IN  IF slashes = {} THEN "" ELSE SubSeq(path, 1, last - 1)

\* C18: the module-level parse_pdf called without output_path saves the
\* Markdown to a file in the directory of the PDF and returns the path of
\* that file.
C18_SavedNextToPdf ==
    call.fn = "parse_pdf()" /\ pc = "returned" /\ call.output_path = "" =>
        \E q \in WrittenPaths :
            /\ ParentOf(q) = ParentOf(call.file.path)
            /\ fs.files[q] = MarkdownOf(call.file)
            /\ result.v = q

\* what the function does instead: it returns the Markdown and writes nothing
C18_ReturnsMarkdown ==
    call.fn = "parse_pdf()" /\ pc = "returned" /\ call.output_path = "" =>
        /\ result.v = MarkdownOf(call.file)
        /\ fs = call.disk

---------------------------------------------------------------------------
(* Properties of the remote calls of generate_image_description *)

\* C19: one invocation makes at most one description call, of the shape
\* the client's capability selects: with chat.complete, the chat-completion
\* endpoint with JSON response format and the image attached; without it,
\* the chat callable with the prompt alone; and no call at all when the
\* image does not decode.
C19_OneCallByCapability ==
    Described =>
        /\ Len(calls) <= 1
        /\ ~call.image_base64.decodes => calls = <<>>
        /\ \A k \in 1..Len(calls) :
               IF call.client.hasComplete
               THEN calls[k] = [endpoint |-> "chat.complete",
                                model |-> "mistral-large-latest",
                                json_format |-> TRUE,
                                image |-> call.image_base64]
               ELSE /\ calls[k].endpoint = "chat"
                    /\ calls[k].model = "mistral-large-latest"
                    /\ ~calls[k].json_format
                    /\ calls[k].image = EmptyPayload

\* a client without chat.complete: the chat callable was called once, and
\* its reply was used
C19_Witness ==
    /\ Described
    /\ ~call.client.hasComplete
    /\ call.client.raises = "None"
    /\ call.image_base64.decodes
    /\ pc = "returned"
    /\ Len(calls) = 1
    /\ calls[1].endpoint = "chat"
    /\ Has(result.v, "description")
    /\ Get(result.v, "description") = PyStr("A red square image")

---------------------------------------------------------------------------
(* Properties of the remote calls of structured_ocr *)

\* both remote calls return and the parse reply has a first choice
C20_Success ==
    /\ ImageRead
    /\ call.client.ocr.raises = "None"
    /\ call.client.ocr.pages # "none"
    /\ call.client.parse.raises = "None"
    /\ call.client.parse.choices = "list"

\* the calls of a run are the OCR call, then the parse call made with the
\* given model; none follows an OCR call that raised; a successful run
\* returns the parsed field of the first choice
C20_Calls(model) ==
    ImageRead =>
        /\ Len(calls) \in {1, 2}
        /\ calls[1].endpoint = "ocr.process"
        /\ calls[1].model = call.ocr_model
        /\ call.client.ocr.raises # "None" => Len(calls) = 1
        /\ Len(calls) = 2 =>
              /\ calls[2].endpoint = "chat.parse"
              /\ calls[2].model = model
        /\ C20_Success =>
              /\ Len(calls) = 2
              /\ pc = "returned"
              /\ result.v = call.client.parse.parsed

\* C20: structured_ocr calls OCR with the caller's ocr_model, then the
\* structured parse with the caller's parse_model; the parse call is not
\* made when the OCR call raises; on success the parsed field of the first
\* choice of the parse reply is returned.
C20_ModelsAndOrder == C20_Calls(call.parse_model)

\* the same with the model the parse call is made with in the code
C20_FixedParseModel == C20_Calls("pixtral-12b-latest")

---------------------------------------------------------------------------
(* Properties of the response shapes of _generate_markdown *)

\* the response has no page: the attribute is absent or an empty list
C21_NoPages == ~call.ocr_response.hasPages \/ call.ocr_response.pages = <<>>

\* C21: pages come first, then the top-level markdown, then the blocks.
\* Without pages, a top-level `markdown` is returned verbatim, the block
\* list is ignored and no description call is made; blocks are rendered
\* only when the response has neither, and then an absent block list gives
\* the empty string.
C21_Precedence ==
    Normalized =>
        /\ C21_NoPages /\ Has(call.ocr_response.dict, "markdown") =>
              /\ pc = "returned"
              /\ result.v = Get(call.ocr_response.dict, "markdown").s
              /\ calls = <<>>
        /\ calls # <<>> =>
              C21_NoPages /\ ~Has(call.ocr_response.dict, "markdown")
        /\ RendersBlocks /\ pc = "returned" =>
              result.v = C7_Concat(Len(BlocksOf(call.ocr_response)))
        /\ RendersBlocks /\ ~Has(call.ocr_response.dict, "blocks") =>
              /\ pc = "returned"
              /\ result.v = ""
              /\ calls = <<>>

\* an empty pages list, a top-level markdown and a block list holding an
\* image with a payload: the markdown is returned and nothing is described
C21_Witness ==
    /\ Normalized
    /\ call.ocr_response.hasPages
    /\ call.ocr_response.pages = <<>>
    /\ Has(call.ocr_response.dict, "markdown")
    /\ \E i \in 1..Len(BlocksOf(call.ocr_response)) :
            Describable(BlocksOf(call.ocr_response)[i])
    /\ pc = "returned"
    /\ result.v = "# Flat"
    /\ calls = <<>>

\* neither pages nor markdown nor a block list: the empty string
C21_EmptyWitness ==
    /\ RendersBlocks
    /\ ~call.ocr_response.hasPages
    /\ ~Has(call.ocr_response.dict, "blocks")
    /\ pc = "returned"
    /\ result.v = ""

---------------------------------------------------------------------------
(* Properties of the writes of parse_pdf and batch_process_pdfs *)

\* upload, signing, OCR and normalization all succeed on the file
C22_PipelineSucceeds(file) ==
    /\ file.exists
    /\ file.upload.raises = "None"
    /\ file.sign.raises = "None"
    /\ file.ocr.raises = "None"
    /\ generate_markdown(file.ocr.response, file.client).out.ok

\* the files of the batch on which the whole run of parse_pdf succeeds
C22_Written == SelectSeq(call.pdf_files, C9_Succeeds)

\* C22: a failed input leaves no output behind.  A parse_pdf whose upload,
\* signing, OCR or normalization raises writes nothing: its output path is
\* neither created nor modified, and a write happens only after all four
\* succeeded, with the normalizer's Markdown.  In a batch the writes of the
\* run are exactly, in order, the returned paths, each written with the
\* Markdown the normalizer returned for its input; an input that failed
\* was not written, and its output path is as before unless it is also
\* the path of an input that succeeded.
C22_NoOutputOnFailure ==
    /\ call.fn = "parse_pdf" /\ pc # "ready" =>
          /\ ~C22_PipelineSucceeds(call.file) =>
                /\ pc = "raised"
                /\ fs = call.disk
          /\ fs.writes # <<>> =>
                /\ C22_PipelineSucceeds(call.file)
                /\ Len(calls) >= 3
                /\ fs.writes = << <<call.output_path, MarkdownOf(call.file)>> >>
                /\ fs.files[call.output_path] = MarkdownOf(call.file)
    /\ Batched /\ HasKey =>
          /\ pc = "returned"
          /\ Len(fs.writes) = Len(result.v)
          /\ Len(result.v) = Len(C22_Written)
          /\ \A k \in 1..Len(result.v) :
                /\ fs.writes[k] = <<result.v[k], MarkdownOf(C22_Written[k])>>
                /\ result.v[k] = OutputFile(call.output_dir, C22_Written[k])
                /\ result.v[k] \in DOMAIN fs.files
          /\ \A i \in 1..Len(call.pdf_files) :
                LET f == call.pdf_files[i]
                    q == OutputFile(call.output_dir, f)
                IN  ~C9_Succeeds(f)
                    /\ (\A k \in 1..Len(result.v) : result.v[k] # q)
                    => /\ q \in DOMAIN fs.files <=> q \in DOMAIN call.disk.files
                       /\ q \in DOMAIN fs.files => fs.files[q] = call.disk.files[q]

\* a batch whose first input fails in the normalizer and whose second
\* succeeds: the older output of the first is as it was, the second was
\* written and returned
C22_Witness ==
    /\ Batched /\ HasKey
    /\ Len(call.pdf_files) = 2
    /\ call.pdf_files[1].stem = "a"
    /\ C22_PipelineSucceeds(call.pdf_files[2])
    /\ call.pdf_files[1].exists
    /\ call.pdf_files[1].ocr.raises = "None"
    /\ call.pdf_files[1].upload.raises = "None"
    /\ ~C22_PipelineSucceeds(call.pdf_files[1])
    /\ call.disk.dir
    /\ pc = "returned"
    /\ Len(result.v) = 1
    /\ fs.files["out/a.md"] = "# older"
    /\ Len(fs.writes) = 1

\* a single parse whose normalizer raises, with an older file at its output path
C22_SingleWitness ==
    /\ call.fn = "parse_pdf"
    /\ call.file.ocr.raises = "None" /\ call.file.sign.raises = "None"
    /\ call.file.upload.raises = "None" /\ call.file.exists
    /\ call.output_path = "out/a.md"
    /\ call.disk.dir
    /\ pc = "raised"
    /\ result = Raise("KeyError")
    /\ fs.files["out/a.md"] = "# older"
    /\ fs.writes = <<>>

---------------------------------------------------------------------------
(* Invocations of the description composer by _generate_markdown *)

\* an image block with a non-empty base64 payload
C23_ImageBlock(block) ==
    /\ Has(block, "type") /\ Get(block, "type") = PyStr("image")
    /\ Has(block, "image") /\ Has(Get(block, "image"), "base64")
    /\ ~Get(Get(block, "image"), "base64").p.empty

\* the payloads of such blocks among the first n blocks, in block order
RECURSIVE C23_Payloads(_, _)
C23_Payloads(blocks, n) ==
    IF n = 0 THEN <<>>
    ELSE C23_Payloads(blocks, n - 1)
         \o (IF C23_ImageBlock(blocks[n])
             THEN <<Get(Get(blocks[n], "image"), "base64").p>>
             ELSE <<>>)

\* number of positions of the text at which an image reference begins
C23_ReferenceLines(text) ==
    Cardinality({i \in 1..Len(text) :
                    /\ i + Len("![Image](") - 1 <= Len(text)
                    /\ SubSeq(text, i, i + Len("![Image](") - 1) = "![Image]("})

\* C23: when the block list is rendered the description composer is invoked
\* exactly once for each image block with a non-empty payload, in block
\* order and with that block's payload, and for no other block; the number
\* of invocations equals the number of such blocks and the number of image
\* reference lines in the output.
C23_OncePerImageBlock ==
    RendersBlocks =>
        /\ described = C23_Payloads(BlocksOf(call.ocr_response),
                                    Len(BlocksOf(call.ocr_response)))
        /\ pc = "returned"
        /\ Len(described) = C23_ReferenceLines(result.v)

\* the same, for the calls that return
C23_ReturnedOncePerImage ==
    RendersBlocks /\ pc = "returned" =>
        /\ described = C23_Payloads(BlocksOf(call.ocr_response),
                                    Len(BlocksOf(call.ocr_response)))
        /\ Len(described) = C23_ReferenceLines(result.v)

\* a call that raises has invoked the composer for the image blocks up to
\* the one whose description it could not render, in order, and no further
C23_RaisedPrefix ==
    RendersBlocks /\ pc = "raised" =>
        /\ described # <<>>
        /\ \E n \in 1..Len(BlocksOf(call.ocr_response)) :
              /\ C23_ImageBlock(BlocksOf(call.ocr_response)[n])
              /\ described = C23_Payloads(BlocksOf(call.ocr_response), n)

\* a returned call whose two blocks are an image block with a payload and a
\* block that is not described
C23_Witness ==
    /\ RendersBlocks
    /\ pc = "returned"
    /\ Len(BlocksOf(call.ocr_response)) = 2
    /\ \E n \in 1..2 : ~C23_ImageBlock(BlocksOf(call.ocr_response)[n])
    /\ Len(described) = 1
    /\ C23_ReferenceLines(result.v) = 1

\* a returned call with two image blocks, the first with a payload that
\* does not decode: both are described, in block order
C23_TwoImages ==
    /\ RendersBlocks
    /\ pc = "returned"
    /\ Len(described) = 2
    /\ ~described[1].decodes /\ described[2].decodes
    /\ C23_ReferenceLines(result.v) = 2

\* the second of two image blocks is never described: the first one's
\* description has no `description` key
C23_Aborted ==
    /\ RendersBlocks
    /\ pc = "raised"
    /\ Len(described) = 1
    /\ Len(C23_Payloads(BlocksOf(call.ocr_response),
                        Len(BlocksOf(call.ocr_response)))) = 2

====
